---- MODULE Spec2Model ----
(***************************************************************************)
(* A model of the two scripts of evaluate-tables-by-grits:                 *)
(*   src/main.py                 the GriTS scoring run (specification Spec)*)
(*   src/convert_csv_to_html.py  the CSV to HTML batch (SpecCsv)           *)
(*   convert_special_character_from_html of src/main.py (SpecEsc)          *)
(* File and directory names and HTML text are sequences of one-character   *)
(* strings, so that re.sub, glob and str.replace are computed as the code  *)
(* computes them.                                                          *)
(***************************************************************************)
EXTENDS Integers, Sequences, FiniteSets, TLC

VARIABLES
    \* ---- src/main.py: the file system the run reads
    gt,                 \* ground-truth root: doc directory name -> set of file names
    pred,               \* predict root: tool directory -> (doc directory -> file names)
    \* ---- src/main.py: main()'s locals
    pc,                 \* position of main()
    fault,              \* the uncaught exception that ended the run, or "none"
    todoTools,          \* tool directories pred_dir.glob("*") has not yielded yet
    tool_name,          \* pred_tool.name of the tool being matched
    temp_scores_json,   \* the score block being filled
    todoDocs,           \* doc directories of the tool not yet yielded
    doc_id,             \* pred_doc.name
    gt_doc,             \* name of the ground-truth directory chosen for doc_id
    todoTables,         \* gt_doc's *.html files not yet yielded
    lastMatch,          \* len(pred_html) of the last match
    precision_denom,
    recall_denom,
    results,            \* scores_json["results"]
    scoreDirCreated,    \* os.makedirs(save_score_dir) has run
    scoresJsonWritten,  \* scores.json has been dumped
    pivotRows,          \* rows of df_scores_each_table_template
    pivotTop,           \* df_scores_each_table_top: column -> (row -> value)
    pivotCon,           \* df_scores_each_table_con
    aggIdx,             \* number of results already aggregated
    scores_each_tool,   \* rows of scores_each_tool.csv
    reportsWritten,
    \* ---- src/convert_csv_to_html.py
    cpc,                \* position of convert_csv_files / csv_to_html_table
    todoFiles,          \* matching files rglob has not yielded yet
    curFile,            \* the file being converted
    stack,              \* encodings of the active csv_to_html_table frames
    attempts,           \* open() calls made for curFile
    ret,                \* return value of the outermost csv_to_html_table call
    visited,            \* per visited file: what happened
    converted_count,
    error_count,
    \* ---- convert_special_character_from_html
    epc,
    html_in,
    html_out

mainVars == <<gt, pred, pc, fault, todoTools, tool_name, temp_scores_json, todoDocs,
              doc_id, gt_doc, todoTables, lastMatch, precision_denom, recall_denom,
              results, scoreDirCreated, scoresJsonWritten, pivotRows, pivotTop,
              pivotCon, aggIdx, scores_each_tool, reportsWritten>>
csvVars == <<cpc, todoFiles, curFile, stack, attempts, ret, visited,
             converted_count, error_count>>
escVars == <<epc, html_in, html_out>>
vars == <<mainVars, csvVars, escVars>>

(***************************************************************************)
(* Bounds of the model.                                                    *)
(***************************************************************************)
MaxTools == 2          \* tool directories under the predict root
MaxFiles == 2          \* matching files in a CSV batch
RecursionLimit == 4    \* the interpreter's recursion limit, in frames
MaxPieces == 3         \* pieces an input text is built from

(***************************************************************************)
(* Names.                                                                  *)
(***************************************************************************)
Unstructured == <<"u","n","s","t","r","u","c","t","u","r","e","d">>
Dir00Unstructured == <<"0","0","_">> \o Unstructured
Dir01Unstructured == <<"0","1","_">> \o Unstructured
Dir02Tabula == <<"0","2","_","t","a","b","u","l","a">>
ToolDirNames == {Dir00Unstructured, Dir01Unstructured, Dir02Tabula}

DocD1 == <<"d","1">>
Doc01D1 == <<"0","1","_","d","1">>
PredDocNames == {DocD1}
GtDocNames == {DocD1, Doc01D1}

DotHtml == <<".","h","t","m","l">>
FileT1 == <<"t","1">> \o DotHtml
FileT2 == <<"t","2">> \o DotHtml
FileT12 == <<"t","[","1","2","]">> \o DotHtml
PredFileNames == {FileT1, FileT2}
GtFileNames == {FileT1, FileT12}

Digits == {"0","1","2","3","4","5","6","7","8","9"}

\* The two scores grits_from_html returns, in tenths.
MetricPairs == { [grits_top |-> 0, grits_con |-> 0],
                 [grits_top |-> 8, grits_con |-> 6] }

(***************************************************************************)
(* Library functions the scoring run calls, computed on character          *)
(* sequences.                                                              *)
(***************************************************************************)
\* re.sub(r"\d\d_", "", s): every non-overlapping match, left to right, removed.
RECURSIVE ReSubPrefix(_)
ReSubPrefix(s) ==
    IF s = <<>> THEN <<>>
    ELSE IF Len(s) >= 3 /\ s[1] \in Digits /\ s[2] \in Digits /\ s[3] = "_"
         THEN ReSubPrefix(SubSeq(s, 4, Len(s)))
         ELSE <<Head(s)>> \o ReSubPrefix(Tail(s))

\* Index of the "]" closing a character class opened at p[1] = "[", or 0. As in
\* fnmatch, a "]" right after the "[" is a member of the class, not its end.
ClassEnd(p) ==
    LET ends == {k \in 3..Len(p) : p[k] = "]"}
    IN  IF ends = {} THEN 0 ELSE CHOOSE k \in ends : \A j \in ends : k <= j

\* fnmatch of one path component, as Path.glob applies it: "*", "?", "[seq]"
\* and literal characters.
RECURSIVE GlobMatch(_, _)
GlobMatch(p, s) ==
    IF p = <<>> THEN s = <<>>
    ELSE IF Head(p) = "*"
         THEN GlobMatch(Tail(p), s) \/ (s # <<>> /\ GlobMatch(p, Tail(s)))
    ELSE IF s = <<>> THEN FALSE
    ELSE IF Head(p) = "?" THEN GlobMatch(Tail(p), Tail(s))
    ELSE IF Head(p) = "[" /\ ClassEnd(p) # 0
         THEN /\ Head(s) \in {p[k] : k \in 2..(ClassEnd(p) - 1)}
              /\ GlobMatch(SubSeq(p, ClassEnd(p) + 1, Len(p)), Tail(s))
    ELSE Head(s) = Head(p) /\ GlobMatch(Tail(p), Tail(s))

\* Path.stem: the name without its last suffix.
Stem(name) ==
    LET dots == {k \in 2..Len(name) : name[k] = "."}
    IN  IF dots = {} THEN name
        ELSE SubSeq(name, 1, (CHOOSE k \in dots : \A j \in dots : j <= k) - 1)

\* dir.glob("*.html") over a directory's file names.
HtmlFiles(files) == {f \in files : GlobMatch(<<"*">> \o DotHtml, f)}

\* len(list(root.glob("**/*"))) of a two-level tree: every directory and every
\* file below the root is one entry.
RECURSIVE CountBelow(_, _)
CountBelow(tree, dirs) ==
    IF dirs = {} THEN 0
    ELSE LET d == CHOOSE y \in dirs : TRUE
         IN  1 + Cardinality(tree[d]) + CountBelow(tree, dirs \ {d})

CountEntries(tree) == CountBelow(tree, DOMAIN tree)

(***************************************************************************)
(* Arithmetic of the aggregation. Scores are tenths; a quotient is kept as *)
(* a fraction [n, d] until round(x, 4) turns it into ten-thousandths.      *)
(***************************************************************************)
RECURSIVE Gcd(_, _)
Gcd(a, b) == IF b = 0 THEN a ELSE Gcd(b, a % b)

\* n/d in lowest terms (d = 0 only for a quotient the code never computes)
Frac(n, d) ==
    LET g == Gcd(n, d)
    IN  IF g = 0 THEN [n |-> n, d |-> d] ELSE [n |-> n \div g, d |-> d \div g]
FromTenths(t) == Frac(t, 10)
FromInt(i) == Frac(i, 1)
IsZero(x) == x.n = 0
FracMul(x, y) == Frac(x.n * y.n, x.d * y.d)
FracAdd(x, y) == Frac(x.n * y.d + y.n * x.d, x.d * y.d)
\* x / y, for y nonzero
FracDiv(x, y) == Frac(x.n * y.d, x.d * y.n)
\* round(x, 4), in ten-thousandths (ties to even)
Round4(x) ==
    LET m == x.n * 10000
        q == m \div x.d
        r == m % x.d
    IN  IF 2 * r > x.d \/ (2 * r = x.d /\ q % 2 = 1) THEN q + 1 ELSE q

\* sum(scores_top_for_each_tool) and sum(scores_con_for_each_tool), in tenths
RECURSIVE SumTop(_)
SumTop(scores) ==
    IF scores = <<>> THEN 0 ELSE Head(scores).grits_top + SumTop(Tail(scores))

RECURSIVE SumCon(_)
SumCon(scores) ==
    IF scores = <<>> THEN 0 ELSE Head(scores).grits_con + SumCon(Tail(scores))

Recall(sum, denom) == FracDiv(FromTenths(sum), FromInt(denom))
Precision(sum, denom) == FracDiv(FromTenths(sum), FromInt(denom))
F1(recall, precision) ==
    FracDiv(FracMul(FracMul(FromInt(2), recall), precision), FracAdd(recall, precision))

\* Whether lines 137-142 raise ZeroDivisionError for a sum and the two denominators.
DivisionFaults(sum, rdenom, pdenom) ==
    \/ rdenom = 0
    \/ pdenom = 0
    \/ IsZero(FracAdd(Recall(sum, rdenom), Precision(sum, pdenom)))

(***************************************************************************)
(* The scoring run, src/main.py main().                                    *)
(***************************************************************************)
NoName == <<>>
NoBlock == [tool |-> NoName, dir |-> NoName, num_tables |-> 0, scores |-> <<>>]
EmptyPivot == [c \in {} |-> [r \in {} |-> 0]]

\* The directory trees a run may be given.
DocLayouts ==
    UNION {[D -> SUBSET PredFileNames] : D \in SUBSET PredDocNames}
PredLayouts ==
    UNION {[T -> DocLayouts] :
             T \in {S \in SUBSET ToolDirNames : Cardinality(S) <= MaxTools}}
GtLayouts ==
    UNION {[D -> SUBSET GtFileNames] : D \in SUBSET GtDocNames}

\* line 51: the tool directory the run leaves out
SkippedNone(name) == FALSE
Skipped(name) == name = Dir00Unstructured

\* lines 68-80: what the number of same-named predicted files means
ClassifyFirstOfMany(n) == IF n = 0 THEN "absent" ELSE "single"
Classify(n) ==
    IF n = 0 THEN "absent" ELSE IF n = 1 THEN "single" ELSE "ambiguous"

\* line 60: the ground-truth directories gt_dir.glob(f"*{doc_id}") yields
GtCandidates(doc) == {g \in DOMAIN gt : GlobMatch(<<"*">> \o doc, g)}

\* line 66: pred_doc.glob(gt_html_name)
PredHtml(gt_html_name) ==
    {p \in pred[tool_name][doc_id] : GlobMatch(gt_html_name, p)}

MainIdle ==
    /\ gt = [d \in {} |-> {}]
    /\ pred = [t \in {} |-> {}]
    /\ pc = "idle"
    /\ fault = "none"
    /\ todoTools = {}
    /\ tool_name = NoName
    /\ temp_scores_json = NoBlock
    /\ todoDocs = {}
    /\ doc_id = NoName
    /\ gt_doc = NoName
    /\ todoTables = {}
    /\ lastMatch = 0
    /\ precision_denom = -1
    /\ recall_denom = 0
    /\ results = <<>>
    /\ scoreDirCreated = FALSE
    /\ scoresJsonWritten = FALSE
    /\ pivotRows = {}
    /\ pivotTop = EmptyPivot
    /\ pivotCon = EmptyPivot
    /\ aggIdx = 0
    /\ scores_each_tool = <<>>
    /\ reportsWritten = FALSE

\* A file of the batch: what its bytes are (no bytes at all, bytes csv.Sniffer
\* finds no delimiter in, or a table), whether open() succeeds, whether the bytes
\* decode as UTF-8 and as Shift_JIS, and whether its .html output can be written.
\* A file without bytes decodes under every encoding.
CsvFiles ==
    {f \in [kind : {"empty", "blank", "table"}, readable : BOOLEAN,
            utf8 : BOOLEAN, sjis : BOOLEAN, writable : BOOLEAN] :
        /\ f.kind = "empty" => f.utf8 /\ f.sjis
        /\ ~f.readable => f.kind = "table" /\ f.utf8 /\ f.sjis}
NoFile == [kind |-> "none", readable |-> FALSE, utf8 |-> FALSE, sjis |-> FALSE,
           writable |-> FALSE]

CsvIdle ==
    /\ cpc = "idle"
    /\ todoFiles = <<>>
    /\ curFile = NoFile
    /\ stack = <<>>
    /\ attempts = 0
    /\ ret = "none"
    /\ visited = <<>>
    /\ converted_count = 0
    /\ error_count = 0

EscIdle ==
    /\ epc = "idle"
    /\ html_in = <<>>
    /\ html_out = <<>>

\* lines 35-42: the state on entering the loop over the tool directories.
\* precision_denom is unbound until the first tool is visited (-1 here).
InitMain ==
    /\ gt \in GtLayouts
    /\ pred \in PredLayouts
    /\ pc = "tools"
    /\ fault = "none"
    /\ todoTools = DOMAIN pred
    /\ tool_name = NoName
    /\ temp_scores_json = NoBlock
    /\ todoDocs = {}
    /\ doc_id = NoName
    /\ gt_doc = NoName
    /\ todoTables = {}
    /\ lastMatch = 0
    /\ precision_denom = -1
    /\ recall_denom = CountEntries(gt)
    /\ results = <<>>
    /\ scoreDirCreated = FALSE
    /\ scoresJsonWritten = FALSE
    /\ pivotRows = {}
    /\ pivotTop = EmptyPivot
    /\ pivotCon = EmptyPivot
    /\ aggIdx = 0
    /\ scores_each_tool = <<>>
    /\ reportsWritten = FALSE

Init == InitMain /\ CsvIdle /\ EscIdle

\* lines 43-52: the next tool directory; 00_unstructured is passed over.
NextTool ==
    /\ pc = "tools"
    /\ \E t \in todoTools :
         /\ todoTools' = todoTools \ {t}
         /\ precision_denom' = CountEntries(pred[t])
         /\ tool_name' = t
         /\ temp_scores_json' = [tool |-> ReSubPrefix(t), dir |-> t,
                                 num_tables |-> CountEntries(pred[t]),
                                 scores |-> <<>>]
         /\ IF Skipped(t)
            THEN pc' = "tools" /\ todoDocs' = todoDocs
            ELSE pc' = "docs" /\ todoDocs' = DOMAIN pred[t]
    /\ UNCHANGED <<csvVars, escVars, gt, pred, fault, doc_id, gt_doc, todoTables, lastMatch,
                   recall_denom, results, scoreDirCreated, scoresJsonWritten,
                   pivotRows, pivotTop, pivotCon, aggIdx, scores_each_tool,
                   reportsWritten>>

\* lines 56-61: the next document of the tool and its ground-truth directory, the
\* first one the glob yields; none raises StopIteration.
NextDoc ==
    /\ pc = "docs"
    /\ \E d \in todoDocs :
         /\ todoDocs' = todoDocs \ {d}
         /\ doc_id' = d
         /\ IF GtCandidates(d) = {}
            THEN /\ pc' = "aborted"
                 /\ fault' = "StopIteration"
                 /\ UNCHANGED <<gt_doc, todoTables>>
            ELSE /\ \E g \in GtCandidates(d) :
                      /\ gt_doc' = g
                      /\ todoTables' = HtmlFiles(gt[g])
                 /\ pc' = "tables"
                 /\ fault' = fault
    /\ UNCHANGED <<csvVars, escVars, gt, pred, todoTools, tool_name, temp_scores_json, lastMatch,
                   precision_denom, recall_denom, results, scoreDirCreated,
                   scoresJsonWritten, pivotRows, pivotTop, pivotCon, aggIdx,
                   scores_each_tool, reportsWritten>>

\* lines 62-88: one ground-truth table of the document is matched and scored.
MatchTable ==
    /\ pc = "tables"
    /\ \E f \in todoTables, m \in MetricPairs :
         LET n == Cardinality(PredHtml(f))
             kind == Classify(n)
         IN  /\ todoTables' = todoTables \ {f}
             /\ lastMatch' = n
             /\ kind = "absent" => m = [grits_top |-> 0, grits_con |-> 0]
             /\ IF kind = "ambiguous"
                THEN /\ pc' = "aborted"
                     /\ fault' = "ValueError"
                     /\ m = [grits_top |-> 0, grits_con |-> 0]
                     /\ UNCHANGED temp_scores_json
                ELSE /\ temp_scores_json' =
                          [temp_scores_json EXCEPT !.scores =
                              Append(@, [doc_id |-> doc_id, gt_doc |-> gt_doc,
                                         table_id |-> Stem(f),
                                         grits_top |-> m.grits_top,
                                         grits_con |-> m.grits_con])]
                     /\ UNCHANGED <<pc, fault>>
    /\ UNCHANGED <<csvVars, escVars, gt, pred, todoTools, tool_name, todoDocs, doc_id, gt_doc,
                   precision_denom, recall_denom, results, scoreDirCreated,
                   scoresJsonWritten, pivotRows, pivotTop, pivotCon, aggIdx,
                   scores_each_tool, reportsWritten>>

\* line 62: the document's tables are exhausted.
EndTables ==
    /\ pc = "tables"
    /\ todoTables = {}
    /\ pc' = "docs"
    /\ UNCHANGED <<csvVars, escVars, gt, pred, fault, todoTools, tool_name, temp_scores_json,
                   todoDocs, doc_id, gt_doc, todoTables, lastMatch,
                   precision_denom, recall_denom, results, scoreDirCreated,
                   scoresJsonWritten, pivotRows, pivotTop, pivotCon, aggIdx,
                   scores_each_tool, reportsWritten>>

\* line 90: the tool's documents are exhausted; its block joins the results.
EndDocs ==
    /\ pc = "docs"
    /\ todoDocs = {}
    /\ results' = Append(results, temp_scores_json)
    /\ pc' = "tools"
    /\ UNCHANGED <<csvVars, escVars, gt, pred, fault, todoTools, tool_name, temp_scores_json,
                   todoDocs, doc_id, gt_doc, todoTables, lastMatch,
                   precision_denom, recall_denom, scoreDirCreated,
                   scoresJsonWritten, pivotRows, pivotTop, pivotCon, aggIdx,
                   scores_each_tool, reportsWritten>>

\* lines 93-98: the score directory is made and scores.json dumped.
SaveScores ==
    /\ pc = "tools"
    /\ todoTools = {}
    /\ scoreDirCreated' = TRUE
    /\ scoresJsonWritten' = TRUE
    /\ pc' = "template"
    /\ UNCHANGED <<csvVars, escVars, gt, pred, fault, todoTools, tool_name, temp_scores_json,
                   todoDocs, doc_id, gt_doc, todoTables, lastMatch,
                   precision_denom, recall_denom, results, pivotRows, pivotTop,
                   pivotCon, aggIdx, scores_each_tool, reportsWritten>>

\* lines 106-117: one pivot row per *.html file of every ground-truth directory.
BuildTemplate ==
    /\ pc = "template"
    /\ pivotRows' = UNION {{<<g, Stem(f)>> : f \in HtmlFiles(gt[g])} : g \in DOMAIN gt}
    /\ pivotTop' = EmptyPivot
    /\ pivotCon' = EmptyPivot
    /\ pc' = "aggregate"
    /\ UNCHANGED <<csvVars, escVars, gt, pred, fault, todoTools, tool_name, temp_scores_json,
                   todoDocs, doc_id, gt_doc, todoTables, lastMatch,
                   precision_denom, recall_denom, results, scoreDirCreated,
                   scoresJsonWritten, aggIdx, scores_each_tool, reportsWritten>>

\* lines 125-133: the column after the scores are written into it in order; a
\* score lands in the rows whose doc_id and table_id equal the score's.
RECURSIVE FillColumnTop(_, _)
FillColumnTop(col, scores) ==
    IF scores = <<>> THEN col
    ELSE FillColumnTop(
           [r \in DOMAIN col |->
              IF r = <<Head(scores).doc_id, Head(scores).table_id>>
              THEN Head(scores).grits_top ELSE col[r]],
           Tail(scores))

RECURSIVE FillColumnCon(_, _)
FillColumnCon(col, scores) ==
    IF scores = <<>> THEN col
    ELSE FillColumnCon(
           [r \in DOMAIN col |->
              IF r = <<Head(scores).doc_id, Head(scores).table_id>>
              THEN Head(scores).grits_con ELSE col[r]],
           Tail(scores))

\* lines 123-124: df[tool_name] = 0.0 makes the column or resets it.
WithColumn(pivot, name, col) ==
    [c \in DOMAIN pivot \cup {name} |-> IF c = name THEN col ELSE pivot[c]]

\* lines 137-144: the row of scores_each_tool.csv, in ten-thousandths.
ToolSummary(name, sum_top, sum_con, rdenom, pdenom) ==
    LET recall_top == Recall(sum_top, rdenom)
        recall_con == Recall(sum_con, rdenom)
        precision_top == Precision(sum_top, pdenom)
        precision_con == Precision(sum_con, pdenom)
    IN  [tool |-> name,
         top_recall |-> Round4(recall_top),
         top_precision |-> Round4(precision_top),
         top_F1 |-> Round4(F1(recall_top, precision_top)),
         con_recall |-> Round4(recall_con),
         con_precision |-> Round4(precision_con),
         con_F1 |-> Round4(F1(recall_con, precision_con))]

\* lines 119-146: one score block is aggregated: its pivot columns are filled and
\* its recall, precision and F1 computed; a zero divisor ends the run.
AggregateTool ==
    /\ pc = "aggregate"
    /\ aggIdx < Len(results)
    /\ LET result == results[aggIdx + 1]
           zeros == [r \in pivotRows |-> 0]
           sum_top == SumTop(result.scores)
           sum_con == SumCon(result.scores)
       IN  /\ pivotTop' = WithColumn(pivotTop, result.tool,
                                     FillColumnTop(zeros, result.scores))
           /\ pivotCon' = WithColumn(pivotCon, result.tool,
                                     FillColumnCon(zeros, result.scores))
           /\ IF \/ DivisionFaults(sum_top, recall_denom, precision_denom)
                 \/ DivisionFaults(sum_con, recall_denom, precision_denom)
              THEN /\ pc' = "aborted"
                   /\ fault' = "ZeroDivisionError"
                   /\ UNCHANGED <<aggIdx, scores_each_tool>>
              ELSE /\ scores_each_tool' =
                        Append(scores_each_tool,
                               ToolSummary(result.tool, sum_top, sum_con,
                                           recall_denom, precision_denom))
                   /\ aggIdx' = aggIdx + 1
                   /\ UNCHANGED <<pc, fault>>
    /\ UNCHANGED <<csvVars, escVars, gt, pred, todoTools, tool_name, temp_scores_json, todoDocs,
                   doc_id, gt_doc, todoTables, lastMatch, precision_denom,
                   recall_denom, results, scoreDirCreated, scoresJsonWritten,
                   pivotRows, reportsWritten>>

\* lines 148-157: the three CSV reports are written.
WriteReports ==
    /\ pc = "aggregate"
    /\ aggIdx = Len(results)
    /\ reportsWritten' = TRUE
    /\ pc' = "done"
    /\ UNCHANGED <<csvVars, escVars, gt, pred, fault, todoTools, tool_name, temp_scores_json,
                   todoDocs, doc_id, gt_doc, todoTables, lastMatch,
                   precision_denom, recall_denom, results, scoreDirCreated,
                   scoresJsonWritten, pivotRows, pivotTop, pivotCon, aggIdx,
                   scores_each_tool>>

Next ==
    \/ NextTool
    \/ NextDoc
    \/ MatchTable
    \/ EndTables
    \/ EndDocs
    \/ SaveScores
    \/ BuildTemplate
    \/ AggregateTool
    \/ WriteReports

Spec == Init /\ [][Next]_vars

(***************************************************************************)
(* Properties of the scoring run.                                          *)
(***************************************************************************)
\* C1: the precision_top and precision_con reported for a tool are that tool's
\* own score sums divided by that tool's own precision denominator, the
\* num_tables of its score block.
C1_PrecisionUsesOwnDenominator ==
    \A i \in 1..Len(scores_each_tool) :
        LET block == results[i]
        IN  block.num_tables # 0 =>
              /\ scores_each_tool[i].top_precision =
                   Round4(Precision(SumTop(block.scores), block.num_tables))
              /\ scores_each_tool[i].con_precision =
                   Round4(Precision(SumCon(block.scores), block.num_tables))

\* C2: recall_denom is the number of ground-truth tables, the number of
\* (doc_id, table_id) rows of the pivot tables.
C2_RecallDenomIsTableCount ==
    (pc \in {"aggregate", "done"}) => recall_denom = Cardinality(pivotRows)

\* C3: the recall/precision/F1 aggregation never ends in an uncaught division
\* fault, whatever the tools predicted.
C3_NoDivisionFault == fault # "ZeroDivisionError"

\* The score records of a block that were produced for a ground-truth table.
RecordsFor(block, row) ==
    {k \in 1..Len(block.scores) :
        block.scores[k].gt_doc = row[1] /\ block.scores[k].table_id = row[2]}

\* C4: after aggregation every pivot cell of a tool in the results holds the
\* score of the tool's record for that ground-truth table, and 0.0 when there is
\* no such record.
C4_PivotCellsAreScores ==
    pc = "done" =>
      \A i \in 1..Len(results), row \in pivotRows :
          LET block == results[i]
              recs == RecordsFor(block, row)
          IN  /\ block.tool \in DOMAIN pivotTop
              /\ block.tool \in DOMAIN pivotCon
              /\ recs = {} => /\ pivotTop[block.tool][row] = 0
                              /\ pivotCon[block.tool][row] = 0
              /\ recs # {} =>
                   \E k \in recs :
                       /\ pivotTop[block.tool][row] = block.scores[k].grits_top
                       /\ pivotCon[block.tool][row] = block.scores[k].grits_con

\* C5: two or more predicted files for one ground-truth table abort the run with
\* the ambiguity error while no artifact exists, and scores.json exists only
\* once every tool has been matched without a fatal error.
C5_AmbiguityAbortsBeforeOutput ==
    /\ lastMatch >= 2 => pc = "aborted" /\ fault = "ValueError"
    /\ fault \in {"ValueError", "StopIteration"} =>
         ~scoreDirCreated /\ ~scoresJsonWritten /\ ~reportsWritten
    /\ scoresJsonWritten =>
         /\ scoreDirCreated
         /\ todoTools = {} /\ todoDocs = {} /\ todoTables = {}
         /\ \A t \in DOMAIN pred :
               ~Skipped(t) => \E i \in 1..Len(results) : results[i].dir = t

\* C5 witness: a second tool's ambiguous match aborts a run that had already
\* matched one tool completely.
C5_Witness ==
    /\ fault = "ValueError"
    /\ lastMatch = 2
    /\ Len(results) >= 1
    /\ ~scoreDirCreated

\* C6 as stated: no score block and no pivot column bears the display name
\* "unstructured", whatever the directory's two-digit prefix.
C6_UnstructuredNeverReported ==
    /\ \A i \in 1..Len(results) : results[i].tool # Unstructured
    /\ Unstructured \notin DOMAIN pivotTop
    /\ Unstructured \notin DOMAIN pivotCon

\* C6 amended: only the directory named exactly 00_unstructured is skipped: no
\* block is appended for it and no pivot column is made for it, while every other
\* tool directory, 01_unstructured included, gets its block.
C6_Only00UnstructuredSkipped ==
    /\ \A i \in 1..Len(results) : results[i].dir # Dir00Unstructured
    /\ \A c \in DOMAIN pivotTop \cup DOMAIN pivotCon :
          \E i \in 1..Len(results) :
             results[i].tool = c /\ results[i].dir # Dir00Unstructured
    /\ scoresJsonWritten =>
          \A t \in DOMAIN pred \ {Dir00Unstructured} :
             \E i \in 1..Len(results) : results[i].dir = t

\* C6 witness: a finished run over 00_unstructured and 01_unstructured, with the
\* column "unstructured" made for the latter.
C6_Witness ==
    /\ pc = "done"
    /\ {Dir00Unstructured, Dir01Unstructured} \subseteq DOMAIN pred
    /\ Unstructured \in DOMAIN pivotTop
    /\ Len(results) = 1

(***************************************************************************)
(* The CSV batch, src/convert_csv_to_html.py.                              *)
(***************************************************************************)
Batches == UNION {[1..n -> CsvFiles] : n \in 0..MaxFiles}

\* line 33: csv.Sniffer().sniff(sample) raises csv.Error when it finds no
\* delimiter; an empty sample has none.
SniffFails(kind) == kind \in {"empty", "blank"}
\* line 36: the number of rows csv.reader yields
RowCount(kind) == IF kind = "empty" THEN 0 ELSE 1

\* lines 28-62, for bytes that were opened and decoded: the value returned
ParsedResult(kind) ==
    IF SniffFails(kind) THEN "error_other"
    ELSE IF RowCount(kind) = 0 THEN "empty_marker"
    ELSE "table"

Decodes(f, encoding) == IF encoding = "utf-8" THEN f.utf8 ELSE f.sjis

InitCsv ==
    /\ MainIdle
    /\ EscIdle
    /\ cpc = "loop"
    /\ todoFiles \in Batches
    /\ curFile = NoFile
    /\ stack = <<>>
    /\ attempts = 0
    /\ ret = "none"
    /\ visited = <<>>
    /\ converted_count = 0
    /\ error_count = 0

\* lines 90-105: the next matching file; csv_to_html_table is called on it.
VisitFile ==
    /\ cpc = "loop"
    /\ todoFiles # <<>>
    /\ curFile' = Head(todoFiles)
    /\ todoFiles' = Tail(todoFiles)
    /\ stack' = <<"utf-8">>
    /\ attempts' = 0
    /\ ret' = "none"
    /\ cpc' = "call"
    /\ UNCHANGED <<mainVars, escVars, visited, converted_count, error_count>>

\* lines 27-53 and 61-62: the try body of the innermost frame. Every frame above
\* it is at "return csv_to_html_table(...)" and hands the value on. In the frame
\* at the recursion limit the body's own calls may raise RecursionError, which
\* line 61 turns into an error message.
ReadAttempt ==
    /\ cpc = "call"
    /\ attempts' = attempts + 1
    /\ \/ /\ ~curFile.readable
          /\ ret' = "error_other" /\ stack' = <<>> /\ cpc' = "returned"
       \/ /\ Len(stack) = RecursionLimit
          /\ ret' = "error_other" /\ stack' = <<>> /\ cpc' = "returned"
       \/ /\ curFile.readable
          /\ ~Decodes(curFile, stack[Len(stack)])
          /\ cpc' = "fallback"
          /\ UNCHANGED <<ret, stack>>
       \/ /\ curFile.readable
          /\ Decodes(curFile, stack[Len(stack)])
          /\ ret' = ParsedResult(curFile.kind) /\ stack' = <<>> /\ cpc' = "returned"
    /\ UNCHANGED <<mainVars, escVars, todoFiles, curFile, visited,
                   converted_count, error_count>>

\* lines 55-60: the UnicodeDecodeError handler of the innermost frame, whatever
\* encoding that frame was called with: it calls csv_to_html_table again with
\* shift_jis. Only an exception of that call (RecursionError at the limit)
\* reaches line 60.
Fallback ==
    /\ cpc = "fallback"
    /\ IF Len(stack) < RecursionLimit
       THEN /\ stack' = Append(stack, "shift_jis")
            /\ cpc' = "call"
            /\ ret' = ret
       ELSE /\ ret' = "error_encoding"
            /\ stack' = <<>>
            /\ cpc' = "returned"
    /\ UNCHANGED <<mainVars, escVars, todoFiles, curFile, attempts, visited,
                   converted_count, error_count>>

\* lines 107-116: the returned text is written; a failed write is the one
\* exception the loop's handler sees.
WriteHtml ==
    /\ cpc = "returned"
    /\ IF curFile.writable
       THEN /\ converted_count' = converted_count + 1
            /\ error_count' = error_count
       ELSE /\ error_count' = error_count + 1
            /\ converted_count' = converted_count
    /\ visited' = Append(visited,
                         [file |-> curFile, table_html |-> ret, attempts |-> attempts,
                          counted |-> IF curFile.writable THEN "converted" ELSE "error"])
    /\ cpc' = "loop"
    /\ UNCHANGED <<mainVars, escVars, todoFiles, curFile, stack, attempts, ret>>

\* line 118: the summary line
Summary ==
    /\ cpc = "loop"
    /\ todoFiles = <<>>
    /\ cpc' = "done"
    /\ UNCHANGED <<mainVars, escVars, todoFiles, curFile, stack, attempts, ret,
                   visited, converted_count, error_count>>

NextCsv ==
    \/ VisitFile
    \/ ReadAttempt
    \/ Fallback
    \/ WriteHtml
    \/ Summary

SpecCsv == InitCsv /\ [][NextCsv]_vars

\* C7: every file whose conversion fails, in csv_to_html_table or in the write,
\* is counted in error_count and not in converted_count, and the two counts add
\* up to the files visited.
C7_FailuresCounted ==
    /\ converted_count + error_count = Len(visited)
    /\ \A k \in 1..Len(visited) :
          (\/ visited[k].table_html \in {"error_other", "error_encoding"}
           \/ ~visited[k].file.writable)
          => visited[k].counted = "error"

\* C8: csv_to_html_table on a file of zero bytes returns the empty-file marker.
C8_EmptyCsvGivesMarker ==
    (cpc = "returned" /\ curFile.kind = "empty" /\ curFile.readable)
    => ret = "empty_marker"

\* C10: a file that decodes neither as UTF-8 nor as Shift_JIS is read at most
\* twice, and the call returns the encoding-error message.
C10_AtMostTwoReadAttempts ==
    /\ attempts <= 2
    /\ (cpc = "returned" /\ curFile.readable /\ ~curFile.utf8 /\ ~curFile.sjis)
       => ret = "error_encoding"

(***************************************************************************)
(* convert_special_character_from_html, src/main.py lines 164-172.         *)
(***************************************************************************)
\* str.replace: every non-overlapping occurrence of old, left to right
RECURSIVE Replace(_, _, _)
Replace(s, old, new) ==
    IF Len(s) < Len(old) THEN s
    ELSE IF SubSeq(s, 1, Len(old)) = old
         THEN new \o Replace(SubSeq(s, Len(old) + 1, Len(s)), old, new)
         ELSE <<Head(s)>> \o Replace(Tail(s), old, new)

EntLt == <<"&","l","t",";">>
EntGt == <<"&","g","t",";">>
EntAmp == <<"&","a","m","p",";">>
EntQuot == <<"&","q","u","o","t",";">>
EntApos == <<"&","#","3","9",";">>
EntNbsp == <<"&","n","b","s","p",";">>

convert_special_character_from_html(html_text) ==
    LET t1 == Replace(html_text, EntLt, <<"<">>)
        t2 == Replace(t1, EntGt, <<">">>)
        t3 == Replace(t2, EntAmp, <<"&">>)
        t4 == Replace(t3, EntQuot, <<"\"">>)
        t5 == Replace(t4, EntApos, <<"'">>)
        t6 == Replace(t5, EntNbsp, <<" ">>)
    IN  Replace(t6, <<"&">>, EntAmp)

\* The texts tried: up to MaxPieces pieces, each an ampersand, the rest of an
\* entity, or a plain character.
Pieces == { <<"&">>, <<"a","m","p",";">>, <<"l","t",";">>, <<"g","t",";">>,
            <<"q","u","o","t",";">>, <<"#","3","9",";">>, <<"n","b","s","p",";">>,
            <<"x">> }
RECURSIVE Texts(_)
Texts(n) ==
    IF n = 0 THEN {<<>>}
    ELSE LET shorter == Texts(n - 1)
         IN  shorter \cup {t \o q : t \in shorter, q \in Pieces}

InitEsc ==
    /\ MainIdle
    /\ CsvIdle
    /\ epc = "start"
    /\ html_in \in Texts(MaxPieces)
    /\ html_out = <<>>

\* lines 74 and 76: the text read from a file is normalised
Convert ==
    /\ epc = "start"
    /\ html_out' = convert_special_character_from_html(html_in)
    /\ epc' = "done"
    /\ UNCHANGED <<mainVars, csvVars, html_in>>

SpecEsc == InitEsc /\ [][Convert]_vars

\* Each occurrence of the six entities in the text decoded once, in one pass.
Entities == {EntLt, EntGt, EntAmp, EntQuot, EntApos, EntNbsp}
CharOf(e) ==
    IF e = EntLt THEN "<" ELSE IF e = EntGt THEN ">" ELSE IF e = EntAmp THEN "&"
    ELSE IF e = EntQuot THEN "\"" ELSE IF e = EntApos THEN "'" ELSE " "
RECURSIVE DecodeOnce(_)
DecodeOnce(s) ==
    IF s = <<>> THEN <<>>
    ELSE LET here == {e \in Entities : Len(e) <= Len(s) /\ SubSeq(s, 1, Len(e)) = e}
         IN  IF here = {} THEN <<Head(s)>> \o DecodeOnce(Tail(s))
             ELSE LET e == CHOOSE x \in here : TRUE
                  IN  <<CharOf(e)>> \o DecodeOnce(SubSeq(s, Len(e) + 1, Len(s)))

\* C9: the result is the text with each entity occurrence decoded exactly once
\* and every literal & then written as &amp;.
C9_DecodesOneLevel ==
    epc = "done" => html_out = Replace(DecodeOnce(html_in), <<"&">>, EntAmp)

====
